---- MODULE Spec2Model ----
(***************************************************************************)
(* A model of the aggregation core of PyAccuNGS:                           *)
(*   - the frequency aggregator (aggregation.py, create_freqs_file) and    *)
(*     the consensus builder that reads its table,                         *)
(*   - the read-id prefix compactor (aggregation.py,                       *)
(*     trim_read_id_prefixes),                                             *)
(*   - the iterative refinement loop (runner.py, process_data),            *)
(*   - the runner and its stages (runner.py, runner, validate_input,       *)
(*     try_to_rmtree),                                                     *)
(*   - the two fan-outs (runner.py, parallel_process and the pool of       *)
(*     parallel_calc_linked_mutations),                                    *)
(*   - the concatenation of fragment files (utils.py,                      *)
(*     concatenate_files_by_extension).                                    *)
(* Each part has its own specification (SpecFreqs, SpecPrefix, SpecLoop,   *)
(* SpecRunner, SpecDispatch, SpecConcat); the variables of the other       *)
(* parts stay at their initial values.                                     *)
(*                                                                         *)
(* Numbers: ref_pos is kept as an integer scaled by 1000 (1.001 -> 1001),  *)
(* four-decimal columns as integers scaled by 10^4, avg_qscore scaled by   *)
(* 10.  The float value inf is the number Inf, larger than every finite    *)
(* value of the model.                                                     *)
(***************************************************************************)
EXTENDS Integers, Sequences, FiniteSets, TLC

VARIABLES
    \* ---- frequency aggregator
    reference,      \* the reference sequence R of the iteration
    called_bases,   \* basecall dir: *.called_bases file name -> set of records
    freqs_file,     \* [written, rows]: the table create_freqs_file wrote
    consensus_file, \* [written, min_coverage, min_frequency, symbols]: the consensus
    \* ---- prefix compactor
    basecall_files, \* file name -> read_id column (a sequence of read ids)
    json_file,      \* [exists, dict]: read_id_prefixes.json
    trim_pc,        \* "idle", "pass1", "pass2", "done"
    trim_files,     \* the order in which trim_read_id_prefixes got the files
    trim_i,         \* index of the next file of the running pass
    prefix_dict,    \* [bound, dict]: the local variable prefix_dict
    files_before,   \* history: basecall_files when the running call started
    json_before,    \* history: json_file when the running call started
    last_update,    \* history: [called, old, prefixes] of the last update_prefix_dict
    runs,           \* number of trim_read_id_prefixes calls started
    \* ---- refinement loop
    max_basecall_iterations,
    fasta,              \* file id -> sequence (0: the user's reference, k: consensus_k)
    reference_file,     \* the file id process_data holds in reference_file
    basecall_iteration_counter,
    alignments,         \* the list process_data accumulates
    alignment_score,    \* [matches, length] of the last iteration
    loop_pc,            \* "process", "consensus", "test", "done"
    returned,           \* [reference_file, alignments, iterations] once done
    used_reference,     \* history: the reference file used by each iteration
    scores,             \* history: the alignment score of each iteration
    \* ---- runner
    runner_in,          \* the arguments of runner and the state of the paths they name
    runner_pc,          \* the stage to run next, or "except", "returned", "raised"
    stages_run,         \* history: the stages that were started
    status,             \* the status field of meta_data.json
    failed_stage,       \* history: the stage that raised, or "none"
    error,              \* history: the message of the exception raised, or "none"
    meta_data_exists,   \* meta_data.json was written
    basecall_output,    \* what the last per-fragment processing left behind
    freqs_copied,       \* line 366 copied the freqs file of the last iteration
    rm_dir,             \* index of the directory remove_unnecessary_files is at
    retry_attempts,     \* the argument retry_attempts of the running try_to_rmtree
    rm_exists,          \* directory -> it is still on disk
    rm_log,             \* history: directory -> outcome of each rmtree attempt
    \* ---- fan-outs
    dispatcher,         \* "ProcessPoolExecutor" (parallel_process) or "Pool"
    os_cpu_count,       \* the number of CPUs of the machine
    cpu_count,          \* the argument cpu_count of runner, 0 when it is not set
    tasks,              \* task -> "new", "pending", "running", "done", "failed", "killed"
    dispatch_pc,        \* "submit", "wait", "exit", "returned", "raised", "next"
    submitted,          \* number of tasks submitted
    finished_before,    \* the futures that were finished when as_completed was called
    yielded,            \* the tasks whose result the dispatcher has taken
    completion,         \* the tasks in the order they finished
    raised_of,          \* the task whose exception the dispatcher re-raised, or 0
    iteration,          \* the iteration of process_data
    consensus_count,    \* the last iteration whose consensus was computed
    previous_tasks,     \* history: tasks at the end of the previous iteration
    \* ---- concatenation
    input_files,        \* the files of the listing, each a sequence of lines
    remove_headers,     \* the argument remove_headers
    concat_pc,          \* "open", "loop", "closed"
    file_index,         \* index of the next input file
    is_first_file,      \* the local variable is_first_file
    output_file,        \* the lines written to output_path
    \* ---- output directory
    dirs,           \* the directories that exist
    dirs_before,    \* history: dirs when create_dir_also_if_exists was called
    output_dir,     \* the local variable output_dir: the suffixes appended so far
    mkdir_i,        \* the local variable i
    mkdir_pc,       \* "off", "try", "loop", "returned"
    created,        \* history: the directories the call has created
    \* ---- batch iterator
    iterator,       \* the entries the iterator has not handed out yet
    batch_size,     \* [num, den]: the argument batch_size, the fraction num/den
    entry,          \* [none, value]: the local variable entry
    batch,          \* the local variable batch
    batches,        \* the lists yielded so far
    batch_pc,       \* "off", "outer", "inner", "done"
    entries_in,     \* history: the entries of the iterator at the call
    \* ---- mutation read list
    bases_files,      \* called_bases file name -> set of records
    read_list_file,   \* [written, raised, rows]: the file of create_mutation_read_list_file
    read_list_input   \* history: the order in which the files were given

freqVars == <<reference, called_bases, freqs_file, consensus_file>>
prefixVars == <<basecall_files, json_file, trim_pc, trim_files, trim_i, prefix_dict,
                files_before, json_before, last_update, runs>>
loopVars == <<max_basecall_iterations, fasta, reference_file, basecall_iteration_counter,
              alignments, alignment_score, loop_pc, returned, used_reference, scores>>
runnerVars == <<runner_in, runner_pc, stages_run, status, failed_stage, error, meta_data_exists,
                basecall_output, freqs_copied, rm_dir, retry_attempts, rm_exists, rm_log>>
dispatchVars == <<dispatcher, os_cpu_count, cpu_count, tasks, dispatch_pc, submitted,
                  finished_before, yielded, completion, raised_of, iteration, consensus_count,
                  previous_tasks>>
concatVars == <<input_files, remove_headers, concat_pc, file_index, is_first_file, output_file>>
dirVars == <<dirs, dirs_before, output_dir, mkdir_i, mkdir_pc, created>>
batchVars == <<iterator, batch_size, entry, batch, batches, batch_pc, entries_in>>
readListVars == <<bases_files, read_list_file, read_list_input>>
toolVars == <<dirVars, batchVars, readListVars>>
vars == <<freqVars, prefixVars, loopVars, runnerVars, dispatchVars, concatVars, toolVars>>

(***************************************************************************)
(* Bounds of the model.                                                    *)
(***************************************************************************)
MaxRecords == 3      \* base-call records over all called_bases files
MaxRows == 2         \* read_id rows per basecall file
MaxRuns == 2         \* calls of trim_read_id_prefixes
MaxIterations == 3   \* largest max_basecall_iterations
MaxTasks == 2        \* fragments handed to a fan-out
MaxFiles == 3        \* files of one extension in a directory
MaxSuffixes == 3     \* suffixes create_dir_also_if_exists is followed through
MaxEntries == 3      \* entries of the iterator given to batch_iterator
MaxListed == 2       \* records of one called_bases file given to the read lists

\* Small helpers -----------------------------------------------------------
Max(a, b) == IF a >= b THEN a ELSE b

RECURSIVE SumOver(_, _)
\* sum of field f over the records of the finite set S
SumOver(S, f) ==
    IF S = {} THEN 0
    ELSE LET r == CHOOSE x \in S : TRUE IN r[f] + SumOver(S \ {r}, f)

RECURSIVE Pow(_, _)
Pow(b, e) == IF e = 0 THEN 1 ELSE b * Pow(b, e - 1)

\* every ordering of the finite set S, as sequences without repetition
Orderings(S) ==
    {s \in [1..Cardinality(S) -> S] : \A i, j \in DOMAIN s : i # j => s[i] # s[j]}

\* round n/d (d > 0) to `scale` units, ties to even, as numpy's round does
RoundHalfEven(n, d, scale) ==
    LET x == n * scale
        q == x \div d
        r == x % d
    IN  IF 2 * r < d THEN q
        ELSE IF 2 * r > d THEN q + 1
        ELSE IF q % 2 = 0 THEN q ELSE q + 1

(***************************************************************************)
(* PART 1.  The frequency aggregator (aggregation.py, lines 24-66).        *)
(***************************************************************************)
\* the five bases every reference position is seeded with
Bases == {"A", "G", "T", "C", "-"}

\* float inf, as base_count / 0 gives it for base_count > 0
Inf == 1000000000

\* Inputs of the model: the references, the names of the called_bases files,
\* and the fields base-call records are drawn from.
References == {<<"A">>, <<"A", "C">>}
CalledBasesFiles == {"part_0.called_bases", "part_1.called_bases"}
ReadBases == {"A", "G"}
RefBases == {"A", "C"}
ReadNames == {"r1", "r2"}
\* read r2 lies in the paired-end overlap: each of its calls counts twice
ReadOverlap(id) == IF id = "r2" THEN 2 ELSE 0
ReadQuality(id) == IF id = "r2" THEN 60 ELSE 30

\* ref_pos values of a reference of length L: the positions 1..L and the first
\* insertion after position 1
RefPositions(ref) == {1000 * p : p \in 1..Len(ref)} \cup {1001}

IsInteger(pos) == pos % 1000 = 0

\* Python's round(pos): the nearest integer, ties to even; as a ref_pos
RoundPosExact(pos) == pos

RoundPos(pos) == 1000 * RoundHalfEven(pos, 1000, 1)

\* the ref_base values of the records at pos: the reference's base; at position 1
\* also a base that differs from it (a record written against another reference)
RefBasesAt(ref, pos) == IF pos = 1000 THEN RefBases ELSE {ref[pos \div 1000]}

\* the base-call records a per-fragment processor may write for reference ref
BaseCallRecords(ref) ==
    UNION {{[ref_pos |-> pos, read_base |-> b, ref_base |-> rb, read_id |-> id,
             overlap |-> ReadOverlap(id), quality |-> ReadQuality(id)] :
               b \in ReadBases, rb \in RefBasesAt(ref, pos), id \in ReadNames} :
           pos \in RefPositions(ref)}

KeyOf(r) == <<r.ref_pos, r.read_base, r.ref_base>>

\* lines 25-30: one dummy row per position and base, with the reference's base
DummyBasesBroken(ref) ==
    {<<1000 * p, b, ref[p]>> : p \in 1..Len(ref), b \in Bases \ {"-"}}

DummyBases(ref) ==
    {<<1000 * p, b, ref[p]>> : p \in 1..Len(ref), b \in Bases}

\* 'read_id': 'nunique' over the rows of one group (the dummy row has no read_id)
NUnique(group) == Cardinality({r.read_id : r \in group})

\* lines 24-34: the partial table of one called_bases file, key -> sums
convert_called_bases_to_freqs(cb, ref) ==
    LET keys == DummyBases(ref) \cup {KeyOf(r) : r \in cb}
        Group(k) == {r \in cb : KeyOf(r) = k}
    IN  [k \in keys |-> [read_id |-> NUnique(Group(k)),
                         overlap |-> SumOver(Group(k), "overlap"),
                         quality |-> SumOver(Group(k), "quality")]]

\* line 45: freqs.add(freqs_part, fill_value=0)
AddFillBroken(t1, t2) ==
    [k \in DOMAIN t1 \cup DOMAIN t2 |->
        IF k \in DOMAIN t1 THEN t1[k] ELSE t2[k]]

AddFillRight(t1, t2) ==
    [k \in DOMAIN t1 \cup DOMAIN t2 |->
        IF k \in DOMAIN t2 THEN t2[k] ELSE t1[k]]

AddFill(t1, t2) ==
    LET Zero == [read_id |-> 0, overlap |-> 0, quality |-> 0]
        V(t, k) == IF k \in DOMAIN t THEN t[k] ELSE Zero
    IN  [k \in DOMAIN t1 \cup DOMAIN t2 |->
            [read_id |-> V(t1, k).read_id + V(t2, k).read_id,
             overlap |-> V(t1, k).overlap + V(t2, k).overlap,
             quality |-> V(t1, k).quality + V(t2, k).quality]]

RECURSIVE MergeParts(_, _, _, _)
\* lines 38-45: the loop over the files, in the order they are listed
MergeParts(freqs, order, i, ref) ==
    IF i > Len(order) THEN freqs
    ELSE LET freqs_part == convert_called_bases_to_freqs(called_bases[order[i]], ref)
         IN  MergeParts(IF DOMAIN freqs = {} THEN freqs_part ELSE AddFill(freqs, freqs_part),
                        order, i + 1, ref)

\* line 49: (overlap / base_count).fillna(0) / 2, to four decimals
OverlapRatio(overlap, base_count) ==
    IF base_count = 0 THEN (IF overlap = 0 THEN 0 ELSE Inf)
    ELSE RoundHalfEven(overlap, 2 * base_count, 10000)

\* lines 50-51: round(quality / total_times_called, 1), NaN -> 0, in tenths;
\* total_times_called = base_count * (1 + overlap_ratio) = (2*base_count + overlap) / 2
AvgQscore(quality, overlap, base_count) ==
    IF base_count = 0 THEN (IF quality = 0 THEN 0 ELSE Inf)
    ELSE RoundHalfEven(2 * quality, 2 * base_count + overlap, 10)

\* lines 37-54: the table without the statistics of create_freqs_file; an empty
\* collection of files gives the empty table (lines 47-48)
aggregate_called_bases(order, ref) ==
    LET freqs == MergeParts(<<>>, order, 1, ref)
    IN  {[ref_pos |-> k[1], read_base |-> k[2], ref_base |-> k[3],
          base_count |-> freqs[k].read_id,
          overlap_ratio |-> OverlapRatio(freqs[k].overlap, freqs[k].read_id),
          avg_qscore |-> AvgQscore(freqs[k].quality, freqs[k].overlap, freqs[k].read_id)] :
            k \in DOMAIN freqs}

\* line 60: freqs.groupby('ref_pos').base_count.sum(), at one ref_pos
CoverageByIntegerPart(rows, pos) ==
    SumOver({r \in rows : r.ref_pos \div 1000 = pos \div 1000}, "base_count")

Coverage(rows, pos) == SumOver({r \in rows : r.ref_pos = pos}, "base_count")

\* line 62: (base_count / coverage).fillna(0), to four decimals
FrequencyNoFill(base_count, coverage) ==
    IF coverage = 0 THEN Inf ELSE RoundHalfEven(base_count, coverage, 10000)

Frequency(base_count, coverage) ==
    IF coverage = 0 THEN (IF base_count = 0 THEN 0 ELSE Inf)
    ELSE RoundHalfEven(base_count, coverage, 10000)

\* line 64: 1 - (1 - frequency) ** coverage, to four decimals; x ** 0 is 1 for
\* every float x, inf and nan included
Probability(base_count, coverage) ==
    IF coverage = 0 THEN 0
    ELSE RoundHalfEven(Pow(coverage, coverage) - Pow(coverage - base_count, coverage),
                       Pow(coverage, coverage), 10000)

\* rank('min') of a row in its ref_pos group: 1 + the number of smaller counts
RankMax(rows, row) ==
    Cardinality({r \in rows : r.ref_pos = row.ref_pos /\ r.base_count <= row.base_count})

RankMin(rows, row) ==
    1 + Cardinality({r \in rows : r.ref_pos = row.ref_pos /\ r.base_count < row.base_count})

\* line 63: read_base.nunique() - groupby('ref_pos').base_count.rank('min')
BaseRankFromOne(rows, row) == Cardinality({r.read_base : r \in rows}) - RankMin(rows, row) + 1

BaseRank(rows, row) == Cardinality({r.read_base : r \in rows}) - RankMin(rows, row)

\* lines 57-66: the rows create_freqs_file writes
FreqsRows(order, ref) ==
    LET freqs == aggregate_called_bases(order, ref)
    IN  {[ref_pos |-> r.ref_pos, read_base |-> r.read_base, ref_base |-> r.ref_base,
          base_count |-> r.base_count, overlap_ratio |-> r.overlap_ratio,
          avg_qscore |-> r.avg_qscore,
          coverage |-> Coverage(freqs, RoundPos(r.ref_pos)),
          frequency |-> Frequency(r.base_count, Coverage(freqs, RoundPos(r.ref_pos))),
          base_rank |-> BaseRank(freqs, r),
          probability |-> Probability(r.base_count, Coverage(freqs, RoundPos(r.ref_pos)))] :
            r \in freqs}

TotalRecords == SumOver({[n |-> Cardinality(called_bases[f]), f |-> f] : f \in DOMAIN called_bases}, "n")

\* no consensus file is written yet
NoConsensus == [written |-> FALSE, min_coverage |-> 0, min_frequency |-> 0, symbols |-> <<>>]

InitFreqsPart ==
    /\ reference \in References
    /\ called_bases = <<>>
    /\ freqs_file = [written |-> FALSE, rows |-> {}]
    /\ consensus_file = NoConsensus

\* a per-fragment processor creates its called_bases file (header only)
CreateCalledBasesFile(f) ==
    /\ ~freqs_file.written
    /\ f \notin DOMAIN called_bases
    /\ called_bases' = [g \in DOMAIN called_bases \cup {f} |->
                            IF g = f THEN {} ELSE called_bases[g]]
    /\ UNCHANGED <<reference, freqs_file, consensus_file>>

\* a per-fragment processor writes one base-call record
WriteCalledBase(f, rec) ==
    /\ ~freqs_file.written
    /\ f \in DOMAIN called_bases
    /\ TotalRecords < MaxRecords
    /\ rec \notin called_bases[f]
    /\ called_bases' = [called_bases EXCEPT ![f] = @ \cup {rec}]
    /\ UNCHANGED <<reference, freqs_file, consensus_file>>

\* create_freqs_file over the files of the basecall dir, listed in any order
CreateFreqsFile ==
    /\ ~freqs_file.written
    /\ \E order \in Orderings(DOMAIN called_bases) :
          freqs_file' = [written |-> TRUE, rows |-> FreqsRows(order, reference)]
    /\ UNCHANGED <<reference, called_bases, consensus_file>>

\* the thresholds create_consensus_file is given (runner.py, lines 163-164;
\* aggregation.py, lines 162-165); min_frequency is scaled by 10^4
MinCoverages == {1, 2}
MinFrequencies == {5000, 8000}

\* create_consensus_file at an integer position p: the row with base_rank 0
\* at p gives the symbol, unless it is absent or below a threshold
ConsensusSymbol(rows, p, min_coverage, min_frequency) ==
    LET chosen == {r \in rows : r.ref_pos = 1000 * p /\ r.base_rank = 0}
    IN  IF chosen = {} THEN "N"
        ELSE LET r == CHOOSE x \in chosen : TRUE
             IN  IF r.coverage < min_coverage \/ r.frequency < min_frequency THEN "N"
                 ELSE r.read_base

\* create_consensus_file over the table just written, integer positions only
CreateConsensusFile(min_coverage, min_frequency) ==
    /\ freqs_file.written
    /\ ~consensus_file.written
    /\ consensus_file' =
          [written |-> TRUE, min_coverage |-> min_coverage, min_frequency |-> min_frequency,
           symbols |-> [p \in 1..Len(reference) |->
                           ConsensusSymbol(freqs_file.rows, p, min_coverage, min_frequency)]]
    /\ UNCHANGED <<reference, called_bases, freqs_file>>

(***************************************************************************)
(* PART 2.  The prefix compactor (aggregation.py, lines 107-140).          *)
(* A read id is a sequence of one-character strings.                       *)
(***************************************************************************)
prefix_length == 31

Rep(c, n) == [i \in 1..n |-> c]

\* x[:n] and x[n:] of Python
Take(x, n) == SubSeq(x, 1, IF n < Len(x) THEN n ELSE Len(x))
Drop(x, n) == SubSeq(x, n + 1, Len(x))

Digit(d) == <<"0", "1", "2", "3", "4", "5", "6", "7", "8", "9">>[d + 1]

RECURSIVE ToStr(_)
\* str(n) of a natural number
ToStr(n) == IF n < 10 THEN <<Digit(n)>> ELSE ToStr(n \div 10) \o <<Digit(n % 10)>>

\* Inputs of the model: the files of the basecall dir and the read ids the
\* per-fragment processors write: two prefixes of 31 characters, two tails, and
\* a read id shorter than the prefix length.
BasecallFiles == {"part_0.called_bases", "part_0.read_counter"}
PrefixA == Rep("A", prefix_length)
PrefixC == Rep("A", prefix_length - 1) \o <<"C">>
ReadIds == {PrefixA \o <<"-", "x">>, PrefixA \o <<"-", "y">>, PrefixC \o <<"-", "x">>,
            <<"A", "B">>}

RECURSIVE Unique(_)
\* Series.unique(): the values in the order of their first appearance
Unique(s) ==
    IF s = <<>> THEN <<>>
    ELSE LET front == Unique(SubSeq(s, 1, Len(s) - 1))
             last == s[Len(s)]
         IN  IF \E i \in DOMAIN front : front[i] = last THEN front ELSE Append(front, last)

\* line 131: df.read_id.str[:prefix_length].unique()
Prefixes(column) == Unique([i \in DOMAIN column |-> Take(column[i], prefix_length)])

MaxValue(dict) ==
    IF DOMAIN dict = {} THEN 0
    ELSE CHOOSE m \in {dict[k] : k \in DOMAIN dict} : \A k \in DOMAIN dict : dict[k] <= m

\* lines 108-116: the value the first new prefix gets
NextPrefixValueNoIncrement(file) ==
    IF file.exists /\ DOMAIN file.dict # {} THEN MaxValue(file.dict) ELSE 1

NextPrefixValue(file) ==
    IF file.exists /\ DOMAIN file.dict # {} THEN MaxValue(file.dict) + 1 ELSE 1

RECURSIVE AssignPrefixesNoTest(_, _, _, _)
AssignPrefixesNoTest(dict, next, prefixes, i) ==
    IF i > Len(prefixes) THEN dict
    ELSE AssignPrefixesNoTest(
             [k \in DOMAIN dict \cup {prefixes[i]} |->
                 IF k = prefixes[i] THEN next ELSE dict[k]],
             next + 1, prefixes, i + 1)

RECURSIVE AssignPrefixes(_, _, _, _)
\* lines 117-120: the loop over the prefixes
AssignPrefixes(dict, next, prefixes, i) ==
    IF i > Len(prefixes) THEN dict
    ELSE IF prefixes[i] \in DOMAIN dict
         THEN AssignPrefixes(dict, next, prefixes, i + 1)
         ELSE AssignPrefixes([k \in DOMAIN dict \cup {prefixes[i]} |->
                                  IF k = prefixes[i] THEN next ELSE dict[k]],
                             next + 1, prefixes, i + 1)

\* lines 107-123: the dictionary update_prefix_dict writes and returns
UpdatePrefixDictFromEmpty(file, prefixes) == AssignPrefixes(<<>>, 1, prefixes, 1)

update_prefix_dict(file, prefixes) ==
    AssignPrefixes(IF file.exists THEN file.dict ELSE <<>>,
                   NextPrefixValue(file), prefixes, 1)

\* line 136: str(prefix_dict[x[:prefix_length]]) + "-" + x[prefix_length:]
RewriteReadIdKeepPrefix(dict, x) == ToStr(dict[Take(x, prefix_length)]) \o <<"-">> \o x

RewriteReadId(dict, x) ==
    ToStr(dict[Take(x, prefix_length)]) \o <<"-">> \o Drop(x, prefix_length)

InitPrefixPart ==
    /\ basecall_files = [f \in BasecallFiles |-> <<>>]
    /\ json_file = [exists |-> FALSE, dict |-> <<>>]
    /\ trim_pc = "idle"
    /\ trim_files = <<>>
    /\ trim_i = 1
    /\ prefix_dict = [bound |-> FALSE, dict |-> <<>>]
    /\ files_before = [f \in BasecallFiles |-> <<>>]
    /\ json_before = [exists |-> FALSE, dict |-> <<>>]
    /\ last_update = [called |-> FALSE, old |-> <<>>, prefixes |-> <<>>]
    /\ runs = 0

\* a per-fragment processor writes a row with read id id to file f
WriteRow(f, id) ==
    /\ trim_pc = "idle"
    /\ Len(basecall_files[f]) < MaxRows
    /\ basecall_files' = [basecall_files EXCEPT ![f] = Append(@, id)]
    /\ UNCHANGED <<json_file, trim_pc, trim_files, trim_i, prefix_dict, files_before,
                   json_before, last_update, runs>>

\* trim_read_id_prefixes is called with the files in the order `order`
TrimStart(order) ==
    /\ trim_pc \in {"idle", "done"}
    /\ runs < MaxRuns
    /\ trim_pc' = "pass1"
    /\ trim_files' = order
    /\ trim_i' = 1
    /\ prefix_dict' = [bound |-> FALSE, dict |-> <<>>]
    /\ files_before' = basecall_files
    /\ json_before' = json_file
    /\ runs' = runs + 1
    /\ UNCHANGED <<basecall_files, json_file, last_update>>

\* the step after file trim_i of a pass: the next file, or the next pass
NextFile(next_pc) ==
    IF trim_i < Len(trim_files)
    THEN trim_i' = trim_i + 1 /\ UNCHANGED trim_pc
    ELSE trim_i' = 1 /\ trim_pc' = next_pc

\* lines 128-132, a file with rows: its prefixes go into the dictionary
Pass1Scan ==
    /\ trim_pc = "pass1"
    /\ basecall_files[trim_files[trim_i]] # <<>>
    /\ LET prefixes == Prefixes(basecall_files[trim_files[trim_i]])
           dict == update_prefix_dict(json_file, prefixes)
       IN  /\ json_file' = [exists |-> TRUE, dict |-> dict]
           /\ prefix_dict' = [bound |-> TRUE, dict |-> dict]
           /\ last_update' = [called |-> TRUE,
                              old |-> IF json_file.exists THEN json_file.dict ELSE <<>>,
                              prefixes |-> prefixes]
    /\ NextFile("pass2")
    /\ UNCHANGED <<basecall_files, trim_files, files_before, json_before, runs>>

\* lines 128-130, a file without rows
Pass1Skip ==
    /\ trim_pc = "pass1"
    /\ basecall_files[trim_files[trim_i]] = <<>>
    /\ NextFile("pass2")
    /\ UNCHANGED <<basecall_files, json_file, trim_files, prefix_dict, files_before,
                   json_before, last_update, runs>>

\* lines 133-140, a file with rows: every read_id is rewritten
Pass2Rewrite ==
    /\ trim_pc = "pass2"
    /\ basecall_files[trim_files[trim_i]] # <<>>
    /\ prefix_dict.bound
    /\ basecall_files' = [basecall_files EXCEPT ![trim_files[trim_i]] =
                              [j \in DOMAIN @ |-> RewriteReadId(prefix_dict.dict, @[j])]]
    /\ NextFile("done")
    /\ UNCHANGED <<json_file, trim_files, prefix_dict, files_before, json_before,
                   last_update, runs>>

\* lines 133-135, a file without rows
Pass2Skip ==
    /\ trim_pc = "pass2"
    /\ basecall_files[trim_files[trim_i]] = <<>>
    /\ NextFile("done")
    /\ UNCHANGED <<basecall_files, json_file, trim_files, prefix_dict, files_before,
                   json_before, last_update, runs>>

(***************************************************************************)
(* PART 3.  The refinement loop (runner.py, lines 151-174 and 260-286).    *)
(* Fasta files are named by a number: 0 is the reference the user gave,    *)
(* k is the consensus file of iteration k.  The per-fragment processors    *)
(* and the caller are external: the consensus of an iteration is any       *)
(* sequence of FastaSequences.                                                  *)
(***************************************************************************)
FastaSequences == {<<"A">>, <<"C">>, <<"A", "A">>, <<"A", "C">>, <<"C", "A">>, <<"C", "C">>}

RECURSIVE Matches(_, _)
\* the score of pairwise2.align.globalxx: match 1, mismatch 0, gaps free, which
\* is the length of a longest common subsequence
Matches(a, b) ==
    IF a = <<>> \/ b = <<>> THEN 0
    ELSE LET ra == SubSeq(a, 1, Len(a) - 1)
             rb == SubSeq(b, 1, Len(b) - 1)
         IN  IF a[Len(a)] = b[Len(b)] THEN 1 + Matches(ra, rb)
             ELSE Max(Matches(ra, b), Matches(a, rb))

\* lines 167-172: alignment.score / max(len(consensus), len(reference)), kept as
\* the pair of numerator and denominator
AlignmentScoreByShorter(consensus, ref) ==
    [matches |-> Matches(consensus, ref),
     length |-> IF Len(consensus) <= Len(ref) THEN Len(consensus) ELSE Len(ref)]

AlignmentScore(consensus, ref) ==
    [matches |-> Matches(consensus, ref), length |-> Max(Len(consensus), Len(ref))]

\* line 281: alignment_score == 1
ScoreIsOne(score) == score.matches = score.length

InitLoopPart ==
    /\ max_basecall_iterations \in 1..MaxIterations
    /\ \E ref \in FastaSequences : fasta = [i \in {0} |-> ref]
    /\ reference_file = 0
    /\ basecall_iteration_counter = 0
    /\ alignments = <<>>
    /\ alignment_score = [matches |-> 0, length |-> 1]
    /\ loop_pc = "process"
    /\ returned = [reference_file |-> 0, alignments |-> <<>>, iterations |-> 0]
    /\ used_reference = <<>>
    /\ scores = <<>>

\* lines 264-269: the for statement takes the next k and the fragments are
\* processed against the current reference
ParallelProcess ==
    /\ loop_pc = "process"
    /\ basecall_iteration_counter < max_basecall_iterations
    /\ basecall_iteration_counter' = basecall_iteration_counter + 1
    /\ used_reference' = Append(used_reference, reference_file)
    /\ loop_pc' = "consensus"
    /\ UNCHANGED <<max_basecall_iterations, fasta, reference_file, alignments,
                   alignment_score, returned, scores>>

\* lines 272-279: the consensus of the iteration is written and aligned with
\* the reference; the alignment is appended
CreateConsensusAndCheckAlignment(consensus) ==
    /\ loop_pc = "consensus"
    /\ fasta' = [i \in DOMAIN fasta \cup {basecall_iteration_counter} |->
                    IF i = basecall_iteration_counter THEN consensus ELSE fasta[i]]
    /\ alignment_score' = AlignmentScore(consensus, fasta[reference_file])
    /\ alignments' = Append(alignments, consensus)
    /\ scores' = Append(scores, AlignmentScore(consensus, fasta[reference_file]))
    /\ loop_pc' = "test"
    /\ UNCHANGED <<max_basecall_iterations, reference_file, basecall_iteration_counter,
                   returned, used_reference>>

\* the reference file process_data holds after the test of line 281
ReferenceAfterTestAlwaysConsensus == basecall_iteration_counter

ReferenceAfterTestNeverConsensus == reference_file

ReferenceAfterTest ==
    IF ScoreIsOne(alignment_score) THEN reference_file ELSE basecall_iteration_counter

\* lines 281-286: break on a score of 1, else the consensus becomes the
\* reference; the loop ends after max_basecall_iterations iterations
TestAndContinue ==
    /\ loop_pc = "test"
    /\ ~ScoreIsOne(alignment_score)
    /\ basecall_iteration_counter < max_basecall_iterations
    /\ reference_file' = ReferenceAfterTest
    /\ loop_pc' = "process"
    /\ UNCHANGED <<max_basecall_iterations, fasta, basecall_iteration_counter, alignments,
                   alignment_score, returned, used_reference, scores>>

TestAndReturn ==
    /\ loop_pc = "test"
    /\ ScoreIsOne(alignment_score) \/ basecall_iteration_counter = max_basecall_iterations
    /\ reference_file' = ReferenceAfterTest
    /\ returned' = [reference_file |-> ReferenceAfterTest, alignments |-> alignments,
                    iterations |-> basecall_iteration_counter]
    /\ loop_pc' = "done"
    /\ UNCHANGED <<max_basecall_iterations, fasta, basecall_iteration_counter, alignments,
                   alignment_score, used_reference, scores>>

(***************************************************************************)
(* PART 4.  The runner (runner.py, lines 289-399).                         *)
(* A stage is one call of runner's body.  The stages are external code     *)
(* (data preparation, per-fragment processors, graphs, haplotypes): every  *)
(* stage inside the try statement may raise.  process_data is kept as its  *)
(* two steps, the per-fragment processing of an iteration and the          *)
(* consensus step that follows it; PART 3 holds the loop itself.           *)
(***************************************************************************)
\* line 312: retry_attempts=5
RetryAttempts == 5

\* lines 339-396: the stages inside the try statement, in the order of the code
TryStages ==
    {"set_up", "prepare_data", "parallel_process", "create_consensus", "copy_freqs",
     "aggregate", "create_stats", "graph_summary", "infer_haplotypes", "graph_haplotypes",
     "remove_files", "remove_dirs", "update_done"}

\* the arguments of runner and what they name on disk
RunnerInputs ==
    [mode : {"RefToSeq", "SeqToRef", "other"},
     output_dir : {"not_given", "absent", "empty", "pbs_logs_only", "non_empty"},
     reference_file : {"missing", "no_record", "one_record", "two_records"},
     input_dir : {"missing", "no_fastq", "fastq"},
     cleanup : {"Y", "N"},
     calculate_haplotypes : {"Y", "N"}]

\* what the per-fragment processors left in the basecall directory
BasecallOutputs == {"no_files", "no_records", "records"}

\* the directories of line 391: basecall_dir, data_dir
DirsToRemove == 1..2

FailedStatus == "Failed! see logs for details."

\* lines 289-309: the first failing check, in the order of the code; an
\* output_dir that was not given has just been created by assign_output_dir
validate_input(in) ==
    IF in.mode \notin {"RefToSeq", "SeqToRef"} THEN "blast mode must be either RefToSeq or SeqToRef! "
    ELSE IF in.output_dir = "non_empty" THEN "output_dir must be path to a new or empty directory!"
    ELSE IF in.reference_file = "missing" THEN "reference_file must exist!"
    ELSE IF in.reference_file = "no_record" THEN "reference_file must be of type fasta!"
    ELSE IF in.input_dir = "missing" THEN "Input_dir must exist!"
    ELSE IF in.input_dir = "no_fastq" THEN "Could not find files ending with '.fastq' or 'fastq.gz' in input_dir !"
    ELSE "ok"

\* where control goes when a stage raises: validate_input is called outside the
\* try statement (line 337), everything else inside it (lines 339-397)
RaiseContinues(stage, next) == next

Raise(stage, next) == IF stage = "validate_input" THEN "raised" ELSE "except"

\* the stage that follows a stage that returned
NextStages(stage, in) ==
    LET after_graphs == IF in.cleanup = "Y" THEN {"remove_files"} ELSE {"update_done"}
    IN  CASE stage = "set_up" -> {"prepare_data"}
          [] stage = "prepare_data" -> {"parallel_process"}
          [] stage = "parallel_process" -> {"create_consensus"}
          [] stage = "create_consensus" -> {"parallel_process", "copy_freqs"}
          [] stage = "copy_freqs" -> {"aggregate"}
          [] stage = "aggregate" -> {"create_stats"}
          [] stage = "create_stats" -> {"graph_summary"}
          [] stage = "graph_summary" ->
                IF in.calculate_haplotypes = "Y" THEN {"infer_haplotypes"} ELSE after_graphs
          [] stage = "infer_haplotypes" -> {"graph_haplotypes"}
          [] stage = "graph_haplotypes" -> after_graphs
          [] stage = "remove_files" -> {"remove_dirs"}
          [] stage = "update_done" -> {"returned"}

\* the status update_meta_data has written when the stage has returned
StatusAfter(stage, in, old) ==
    CASE stage = "set_up" -> "Preparing data..."
      [] stage = "prepare_data" -> "Processing data..."
      [] stage = "graph_summary" /\ in.calculate_haplotypes = "Y" -> "Inferring haplotypes..."
      [] stage = "update_done" -> "Done"
      [] OTHER -> old

\* the errors the code raises itself: line 153 (get_sequence_from_fasta, lines
\* 74-79 of utils.py) and lines 150-153 of aggregation.py
OwnError(stage, in, output) ==
    IF stage = "create_consensus" /\ in.reference_file = "two_records" THEN "fasta file must contain only one record!"
    ELSE IF stage = "aggregate" /\ in.cleanup # "Y" /\ output = "no_files" THEN "Could not find files of type *.called_bases"
    ELSE "none"

InitRunnerPart ==
    /\ runner_in \in RunnerInputs
    /\ runner_pc = "validate_input"
    /\ stages_run = {}
    /\ status = "none"
    /\ failed_stage = "none"
    /\ error = "none"
    /\ meta_data_exists = FALSE
    /\ basecall_output = "none"
    /\ freqs_copied = FALSE
    /\ rm_dir = 1
    /\ retry_attempts = RetryAttempts
    /\ rm_exists = [d \in DirsToRemove |-> TRUE]
    /\ rm_log = [d \in DirsToRemove |-> <<>>]

\* line 337
ValidateInput ==
    /\ runner_pc = "validate_input"
    /\ stages_run' = stages_run \cup {"validate_input"}
    /\ LET e == validate_input(runner_in)
       IN  IF e = "ok"
           THEN /\ runner_pc' = "set_up"
                /\ UNCHANGED <<failed_stage, error>>
           ELSE /\ runner_pc' = Raise("validate_input", "set_up")
                /\ failed_stage' = "validate_input"
                /\ error' = e
    /\ UNCHANGED <<runner_in, status, meta_data_exists, basecall_output, freqs_copied,
                   rm_dir, retry_attempts, rm_exists, rm_log>>

\* a stage of lines 340-396 runs and returns; line 366 copies the freqs file
\* of the last iteration whenever process_data has returned
StageReturns(stage) ==
    /\ runner_pc = stage
    /\ stage \in TryStages \ {"remove_dirs"}
    /\ OwnError(stage, runner_in, basecall_output) = "none"
    /\ stages_run' = stages_run \cup {stage}
    /\ runner_pc' \in NextStages(stage, runner_in)
    /\ status' = StatusAfter(stage, runner_in, status)
    /\ meta_data_exists' = (meta_data_exists \/ stage = "set_up")
    /\ IF stage = "parallel_process" THEN basecall_output' \in BasecallOutputs
                                     ELSE UNCHANGED basecall_output
    /\ freqs_copied' = (freqs_copied \/ stage = "copy_freqs")
    /\ UNCHANGED <<runner_in, failed_stage, error, rm_dir, retry_attempts, rm_exists, rm_log>>

\* a stage of lines 340-394 raises an Exception; the set-up stage may raise
\* before or after meta_data.json was first written (line 346)
StageRaises(stage) ==
    /\ runner_pc = stage
    /\ stage \in TryStages \ {"remove_dirs"}
    /\ stages_run' = stages_run \cup {stage}
    /\ runner_pc' = Raise(stage, CHOOSE n \in NextStages(stage, runner_in) : TRUE)
    /\ failed_stage' = stage
    /\ error' = IF OwnError(stage, runner_in, basecall_output) # "none"
                THEN OwnError(stage, runner_in, basecall_output) ELSE "error raised by the stage"
    /\ IF stage = "set_up" THEN meta_data_exists' \in BOOLEAN ELSE UNCHANGED meta_data_exists
    /\ UNCHANGED <<runner_in, status, basecall_output, freqs_copied,
                   rm_dir, retry_attempts, rm_exists, rm_log>>

\* line 319: the value of retry_attempts in the call that follows a failure
RetryWithSameAttempts(attempts) == attempts

RetryWith(attempts) == attempts - 1

\* lines 325-326: try_to_rmtree has returned for rm_dir
RmtreeReturned ==
    IF rm_dir = Cardinality(DirsToRemove)
    THEN /\ runner_pc' = "update_done"
         /\ UNCHANGED <<rm_dir, retry_attempts>>
    ELSE /\ rm_dir' = rm_dir + 1
         /\ retry_attempts' = RetryAttempts
         /\ UNCHANGED runner_pc

\* lines 314-319: one attempt of shutil.rmtree.  When it raises, the bare
\* except calls try_to_rmtree again with one attempt less; a failed rmtree
\* may or may not have removed the directory itself
TryToRmtreeAttempt(ok, still_there) ==
    /\ runner_pc = "remove_dirs"
    /\ retry_attempts # 0
    /\ rm_exists[rm_dir]
    /\ stages_run' = stages_run \cup {"remove_dirs"}
    /\ rm_log' = [rm_log EXCEPT ![rm_dir] = Append(@, ok)]
    /\ IF ok
       THEN /\ rm_exists' = [rm_exists EXCEPT ![rm_dir] = FALSE]
            /\ RmtreeReturned
       ELSE /\ rm_exists' = [rm_exists EXCEPT ![rm_dir] = still_there]
            /\ retry_attempts' = RetryWith(retry_attempts)
            /\ UNCHANGED <<runner_pc, rm_dir>>
    /\ UNCHANGED <<runner_in, status, failed_stage, error, meta_data_exists, basecall_output,
                   freqs_copied>>

\* lines 314, 316: no attempt is left, or the path is not a directory
TryToRmtreeGiveUp ==
    /\ runner_pc = "remove_dirs"
    /\ retry_attempts = 0 \/ ~rm_exists[rm_dir]
    /\ stages_run' = stages_run \cup {"remove_dirs"}
    /\ RmtreeReturned
    /\ UNCHANGED <<runner_in, status, failed_stage, error, meta_data_exists, basecall_output,
                   freqs_copied, rm_exists, rm_log>>

\* lines 397-399: the handler logs the exception and writes the failed
\* status; update_meta_data reads meta_data.json (lines 195-196), which raises
\* out of the handler when the file was never written
ExceptHandler ==
    /\ runner_pc = "except"
    /\ IF meta_data_exists
       THEN /\ status' = FailedStatus
            /\ runner_pc' = "returned"
       ELSE /\ runner_pc' = "raised"
            /\ UNCHANGED status
    /\ UNCHANGED <<runner_in, stages_run, failed_stage, error, meta_data_exists,
                   basecall_output, freqs_copied, rm_dir, retry_attempts, rm_exists, rm_log>>

RunnerIdle ==
    /\ runner_in = [mode |-> "RefToSeq", output_dir |-> "absent", reference_file |-> "one_record",
                    input_dir |-> "fastq", cleanup |-> "N", calculate_haplotypes |-> "N"]
    /\ runner_pc = "off"
    /\ stages_run = {}
    /\ status = "none"
    /\ failed_stage = "none"
    /\ error = "none"
    /\ meta_data_exists = FALSE
    /\ basecall_output = "none"
    /\ freqs_copied = FALSE
    /\ rm_dir = 1
    /\ retry_attempts = RetryAttempts
    /\ rm_exists = [d \in DirsToRemove |-> TRUE]
    /\ rm_log = [d \in DirsToRemove |-> <<>>]

(***************************************************************************)
(* PART 5.  The two fan-outs: parallel_process (runner.py, lines 79-89),   *)
(* which process_data calls once per iteration, and the pool of            *)
(* parallel_calc_linked_mutations (runner.py, lines 144-148, joined by     *)
(* get_mp_results_and_report, utils.py, lines 135-150).  A task is the     *)
(* call of the worker function on one fragment; it is external code that   *)
(* returns or raises.                                                      *)
(***************************************************************************)
Tasks == 1..MaxTasks

Dispatchers == {"ProcessPoolExecutor", "Pool"}

\* the CPUs of the machine, and the argument cpu_count (0: not set)
OsCpuCounts == 1..2
CpuCounts == 0..2

RunningTasks(tk) == {t \in Tasks : tk[t] = "running"}

\* no task is waiting for a worker or running
Settled(tk) == \A t \in Tasks : tk[t] \in {"done", "failed"}

\* runner.py, lines 341-342: cpu_count = mp.cpu_count() when it is not set
EffectiveCpuCount(conf, os) == IF conf = 0 THEN os ELSE conf

\* the number of worker processes: line 81 builds ProcessPoolExecutor()
\* without max_workers, which is the number of CPUs of the machine; line 144
\* builds mp.Pool(cpu_count)
MaxWorkers(kind, conf, os) ==
    IF kind = "ProcessPoolExecutor" THEN os ELSE EffectiveCpuCount(conf, os)

InitDispatchPart ==
    /\ dispatcher \in Dispatchers
    /\ os_cpu_count \in OsCpuCounts
    /\ cpu_count \in CpuCounts
    /\ tasks = [t \in Tasks |-> "new"]
    /\ dispatch_pc = "submit"
    /\ submitted = 0
    /\ finished_before = {}
    /\ yielded = {}
    /\ completion = <<>>
    /\ raised_of = 0
    /\ iteration = 1
    /\ consensus_count = 0
    /\ previous_tasks = [t \in Tasks |-> "done"]

\* lines 82-86 and 145-147: the next task is handed to the executor / pool
Submit ==
    /\ dispatch_pc = "submit"
    /\ submitted < MaxTasks
    /\ submitted' = submitted + 1
    /\ tasks' = [tasks EXCEPT ![submitted + 1] = "pending"]
    /\ UNCHANGED <<dispatcher, os_cpu_count, cpu_count, dispatch_pc, finished_before, yielded,
                   completion, raised_of, iteration, consensus_count, previous_tasks>>

\* lines 88 and 148: all tasks are submitted and the dispatcher starts to
\* collect results; as_completed first notes the futures that are finished
BeginWait ==
    /\ dispatch_pc = "submit"
    /\ submitted = MaxTasks
    /\ dispatch_pc' = "wait"
    /\ finished_before' = IF dispatcher = "ProcessPoolExecutor"
                          THEN {t \in Tasks : tasks[t] \in {"done", "failed"}} ELSE {}
    /\ UNCHANGED <<dispatcher, os_cpu_count, cpu_count, tasks, submitted, yielded,
                   completion, raised_of, iteration, consensus_count, previous_tasks>>

\* a free worker process takes the oldest waiting task
StartTask(t) ==
    /\ dispatch_pc \in {"submit", "wait", "exit"}
    /\ tasks[t] = "pending"
    /\ \A u \in Tasks : tasks[u] = "pending" => t <= u
    /\ Cardinality(RunningTasks(tasks)) < MaxWorkers(dispatcher, cpu_count, os_cpu_count)
    /\ tasks' = [tasks EXCEPT ![t] = "running"]
    /\ UNCHANGED <<dispatcher, os_cpu_count, cpu_count, dispatch_pc, submitted, finished_before,
                   yielded, completion, raised_of, iteration, consensus_count, previous_tasks>>

\* the worker function returns (ok) or raises
FinishTask(t, ok) ==
    /\ dispatch_pc \in {"submit", "wait", "exit"}
    /\ tasks[t] = "running"
    /\ tasks' = [tasks EXCEPT ![t] = IF ok THEN "done" ELSE "failed"]
    /\ completion' = Append(completion, t)
    /\ UNCHANGED <<dispatcher, os_cpu_count, cpu_count, dispatch_pc, submitted, finished_before,
                   yielded, raised_of, iteration, consensus_count, previous_tasks>>

\* the futures as_completed may yield next: any future that was finished
\* when as_completed was called, then the others in the order they finish
NextYielded ==
    IF finished_before \ yielded # {} THEN finished_before \ yielded
    ELSE LET rest == {i \in DOMAIN completion : completion[i] \notin yielded}
         IN  {completion[i] : i \in {j \in rest : \A k \in rest : j <= k}}

\* line 88: the loop over as_completed ends when every future was yielded
LoopEnds(seen) == seen = Tasks

\* lines 88-89: as_completed yields a future and future.result() returns or
\* re-raises; after the last future the with statement is left
YieldResult(t) ==
    /\ dispatcher = "ProcessPoolExecutor"
    /\ dispatch_pc = "wait"
    /\ t \in NextYielded
    /\ yielded' = yielded \cup {t}
    /\ IF tasks[t] = "failed"
       THEN /\ raised_of' = t
            /\ dispatch_pc' = "exit"
       ELSE /\ UNCHANGED raised_of
            /\ dispatch_pc' = IF LoopEnds(yielded \cup {t}) THEN "exit" ELSE "wait"
    /\ UNCHANGED <<dispatcher, os_cpu_count, cpu_count, tasks, submitted, finished_before,
                   completion, iteration, consensus_count, previous_tasks>>

\* line 81: leaving the with statement is executor.shutdown(wait=True), which
\* returns when every submitted task has run
ShutdownReturnsAtOnce(tk) == TRUE

ShutdownReturns(tk) == Settled(tk)

\* lines 81, 89: the with statement is left; parallel_process returns, or the
\* exception of future.result() goes on to the caller
ExecutorExit ==
    /\ dispatcher = "ProcessPoolExecutor"
    /\ dispatch_pc = "exit"
    /\ ShutdownReturns(tasks)
    /\ dispatch_pc' = IF raised_of = 0 THEN "returned" ELSE "raised"
    /\ UNCHANGED <<dispatcher, os_cpu_count, cpu_count, tasks, submitted, finished_before,
                   yielded, completion, raised_of, iteration, consensus_count, previous_tasks>>

\* utils.py, lines 139-145, and runner.py, line 144: async_object.get() of
\* the next task in submission order returns or re-raises; leaving the with
\* statement is pool.terminate(), which stops the worker processes at once
PoolGet ==
    /\ dispatcher = "Pool"
    /\ dispatch_pc = "wait"
    /\ LET t == Cardinality(yielded) + 1
       IN  /\ tasks[t] \in {"done", "failed"}
           /\ yielded' = yielded \cup {t}
           /\ IF tasks[t] = "failed"
              THEN /\ raised_of' = t
                   /\ dispatch_pc' = "raised"
                   /\ tasks' = [u \in Tasks |->
                                  IF tasks[u] \in {"pending", "running"} THEN "killed"
                                  ELSE tasks[u]]
              ELSE /\ UNCHANGED <<raised_of, tasks>>
                   /\ dispatch_pc' = IF t = MaxTasks THEN "returned" ELSE "wait"
    /\ UNCHANGED <<dispatcher, os_cpu_count, cpu_count, submitted, finished_before,
                   completion, iteration, consensus_count, previous_tasks>>

\* runner.py, lines 270-279: parallel_process has returned and the frequency
\* table and the consensus of the iteration are computed
CreateConsensus ==
    /\ dispatcher = "ProcessPoolExecutor"
    /\ dispatch_pc = "returned"
    /\ consensus_count' = iteration
    /\ dispatch_pc' = "next"
    /\ UNCHANGED <<dispatcher, os_cpu_count, cpu_count, tasks, submitted, finished_before,
                   yielded, completion, raised_of, iteration, previous_tasks>>

\* runner.py, lines 264-269: the next iteration calls parallel_process again
NextIteration ==
    /\ dispatch_pc = "next"
    /\ iteration < MaxIterations
    /\ iteration' = iteration + 1
    /\ previous_tasks' = tasks
    /\ tasks' = [t \in Tasks |-> "new"]
    /\ dispatch_pc' = "submit"
    /\ submitted' = 0
    /\ finished_before' = {}
    /\ yielded' = {}
    /\ completion' = <<>>
    /\ UNCHANGED <<dispatcher, os_cpu_count, cpu_count, raised_of, consensus_count>>

DispatchIdle ==
    /\ dispatcher = "Pool"
    /\ os_cpu_count = 1
    /\ cpu_count = 0
    /\ tasks = [t \in Tasks |-> "new"]
    /\ dispatch_pc = "off"
    /\ submitted = 0
    /\ finished_before = {}
    /\ yielded = {}
    /\ completion = <<>>
    /\ raised_of = 0
    /\ iteration = 1
    /\ consensus_count = 0
    /\ previous_tasks = [t \in Tasks |-> "done"]

(***************************************************************************)
(* PART 6.  concatenate_files_by_extension (utils.py, lines 54-71), as     *)
(* aggregate_processed_output calls it (aggregation.py, lines 148-159):    *)
(* with remove_headers=False for the blast files and with the default True *)
(* for each category of basecall files.  A file is the sequence of its     *)
(* lines; "h" is a header line, the other lines are data.                  *)
(***************************************************************************)
FileContents == {<<>>, <<"h">>, <<"h", "a">>, <<"h", "a", "b">>}

\* the listings get_files_by_extension may return: up to MaxFiles files
FileListings == UNION {[1..n -> FileContents] : n \in 0..MaxFiles}

\* lines 64-70: the lines of one input file that reach the output
LinesWrittenAll(file, first_file, remove) == file

LinesWritten(file, first_file, remove) ==
    IF ~first_file /\ remove /\ file # <<>> THEN Tail(file) ELSE file

InitConcatPart ==
    /\ input_files \in FileListings
    /\ remove_headers \in BOOLEAN
    /\ concat_pc = "open"
    /\ file_index = 1
    /\ is_first_file = TRUE
    /\ output_file = <<>>

\* lines 59-61
OpenOutput ==
    /\ concat_pc = "open"
    /\ concat_pc' = "loop"
    /\ output_file' = <<>>
    /\ is_first_file' = TRUE
    /\ file_index' = 1
    /\ UNCHANGED <<input_files, remove_headers>>

\* lines 62-71: one input file is read line by line
ConcatenateFile ==
    /\ concat_pc = "loop"
    /\ file_index <= Len(input_files)
    /\ output_file' = output_file \o LinesWritten(input_files[file_index], is_first_file,
                                                  remove_headers)
    /\ is_first_file' = FALSE
    /\ file_index' = file_index + 1
    /\ UNCHANGED <<input_files, remove_headers, concat_pc>>

\* line 61: the with statement closes the output after the last file
CloseOutput ==
    /\ concat_pc = "loop"
    /\ file_index > Len(input_files)
    /\ concat_pc' = "closed"
    /\ UNCHANGED <<input_files, remove_headers, file_index, is_first_file, output_file>>

ConcatIdle ==
    /\ input_files = <<>>
    /\ remove_headers = TRUE
    /\ concat_pc = "off"
    /\ file_index = 1
    /\ is_first_file = TRUE
    /\ output_file = <<>>

(***************************************************************************)
(* Part 7: the output directory (runner.py, create_dir_also_if_exists).    *)
(* A directory is named by the suffixes appended to the path that          *)
(* assign_output_dir built: <<>> is that path, <<2>> is path_2, <<2, 3>>   *)
(* is path_2_3.                                                            *)
(***************************************************************************)
RECURSIVE DirPaths(_)
\* the directory names with at most n suffixes, each suffix 2 or 3
DirPaths(n) ==
    IF n = 0 THEN {<<>>}
    ELSE DirPaths(n - 1) \cup {Append(d, k) : d \in DirPaths(n - 1), k \in {2, 3}}

InitDirPart ==
    /\ dirs \in SUBSET DirPaths(MaxSuffixes - 1)
    /\ dirs_before = dirs
    /\ output_dir = <<>>
    /\ mkdir_i = 2
    /\ mkdir_pc = "try"
    /\ created = {}

\* os.makedirs(output_dir, exist_ok=False) of a directory that does not exist
Makedirs(d) ==
    /\ dirs' = dirs \cup {d}
    /\ created' = created \cup {d}

\* lines 219-223: the first makedirs; FileExistsError enters the loop with i = 2
MakedirsFirst ==
    /\ mkdir_pc = "try"
    /\ IF output_dir \in dirs
         THEN mkdir_pc' = "loop" /\ UNCHANGED <<dirs, created>>
         ELSE mkdir_pc' = "returned" /\ Makedirs(output_dir)
    /\ mkdir_i' = 2
    /\ UNCHANGED <<dirs_before, output_dir>>

\* lines 223-229: one turn of 'while i < 1000'; the suffix is appended to the
\* name of the turn before, i grows only on FileExistsError, and a makedirs
\* that succeeds is followed by the next turn
LoopTurn ==
    /\ mkdir_pc = "loop"
    /\ Len(output_dir) < MaxSuffixes
    /\ IF mkdir_i < 1000
         THEN /\ output_dir' = Append(output_dir, mkdir_i)
              /\ IF output_dir' \in dirs
                   THEN mkdir_i' = mkdir_i + 1 /\ UNCHANGED <<dirs, created>>
                   ELSE mkdir_i' = mkdir_i /\ Makedirs(output_dir')
              /\ mkdir_pc' = "loop"
         ELSE mkdir_pc' = "returned" /\ UNCHANGED <<output_dir, mkdir_i, dirs, created>>
    /\ UNCHANGED dirs_before

DirIdle ==
    /\ dirs = {}
    /\ dirs_before = {}
    /\ output_dir = <<>>
    /\ mkdir_i = 2
    /\ mkdir_pc = "off"
    /\ created = {}

(***************************************************************************)
(* Part 8: splitting a fastq file (data_preparation.py, batch_iterator and *)
(* split_fastq_file).  batch_size is the fraction num/den, as the division *)
(* of split_fastq_file produces it.                                        *)
(***************************************************************************)
Entries == {"", "a", "b"}

\* lines 65-66: part_size = (st_size / 1000) / (cpu_count - 1)
PartSize(st_size, cpus) == [num |-> st_size, den |-> 1000 * (cpus - 1)]

\* 'len(batch) < batch_size' for a fraction
LessThanBatchSize(n, size) == n * size.den < size.num

\* the truth value 'while entry' tests: None and an empty entry are false
Truthy(e) == ~e.none /\ e.value # ""

RECURSIVE SeqsUpTo(_, _)
SeqsUpTo(S, n) ==
    IF n = 0 THEN {<<>>}
    ELSE SeqsUpTo(S, n - 1) \cup {Append(q, x) : q \in SeqsUpTo(S, n - 1), x \in S}

\* line 48: entry = True; the file sizes in bytes and the cpu counts that
\* split_fastq_file divides (cpu_count = 1 divides by zero before the call)
InitBatchPart ==
    /\ iterator \in SeqsUpTo(Entries, MaxEntries)
    /\ \E st_size \in {0, 500, 2000, 3000} : \E cpus \in {2, 3} : batch_size = PartSize(st_size, cpus)
    /\ entry = [none |-> FALSE, value |-> "True"]
    /\ batch = <<>>
    /\ batches = <<>>
    /\ batch_pc = "outer"
    /\ entries_in = iterator

\* lines 59-60: 'if batch: yield batch'
Yielded(b) == IF b # <<>> THEN Append(batches, b) ELSE batches

\* lines 49-50: 'while entry' holds and a new batch is begun
BeginBatch ==
    /\ batch_pc = "outer"
    /\ Truthy(entry)
    /\ batch' = <<>>
    /\ batch_pc' = "inner"
    /\ UNCHANGED <<iterator, batch_size, entry, batches, entries_in>>

\* line 49: 'while entry' fails and the generator is exhausted
EndOfGenerator ==
    /\ batch_pc = "outer"
    /\ ~Truthy(entry)
    /\ batch_pc' = "done"
    /\ UNCHANGED <<iterator, batch_size, entry, batch, batches, entries_in>>

\* lines 51-58: one turn of the inner loop; StopIteration makes entry None and
\* breaks, any other entry is appended
NextEntry ==
    /\ batch_pc = "inner"
    /\ LessThanBatchSize(Len(batch), batch_size)
    /\ IF iterator = <<>>
         THEN /\ entry' = [none |-> TRUE, value |-> ""]
              /\ batches' = Yielded(batch)
              /\ batch_pc' = "outer"
              /\ UNCHANGED <<iterator, batch>>
         ELSE /\ entry' = [none |-> FALSE, value |-> Head(iterator)]
              /\ iterator' = Tail(iterator)
              /\ batch' = Append(batch, Head(iterator))
              /\ UNCHANGED <<batches, batch_pc>>
    /\ UNCHANGED <<batch_size, entries_in>>

\* lines 51, 59-60: the inner loop ends because the batch is full
BatchFull ==
    /\ batch_pc = "inner"
    /\ ~LessThanBatchSize(Len(batch), batch_size)
    /\ batches' = Yielded(batch)
    /\ batch_pc' = "outer"
    /\ UNCHANGED <<iterator, batch_size, entry, batch, entries_in>>

BatchIdle ==
    /\ iterator = <<>>
    /\ batch_size = [num |-> 1, den |-> 1]
    /\ entry = [none |-> FALSE, value |-> "True"]
    /\ batch = <<>>
    /\ batches = <<>>
    /\ batch_pc = "off"
    /\ entries_in = <<>>

(***************************************************************************)
(* Part 9: the read lists of the called bases (aggregation.py,             *)
(* create_mutation_read_list_file).  A read list maps the index            *)
(* (ref_pos, read_base) to the read ids of its row; ref_pos is scaled by   *)
(* 1000, so that round(ref_pos, 3) of line 94 leaves every value it meets  *)
(* as it is.                                                               *)
(***************************************************************************)
\* the base calls at position 1 of the reference A: two keys, two reads each
ReadListRecords == {r \in BaseCallRecords(<<"A">>) : r.ref_pos = 1000 /\ r.ref_base = "A"}

\* line 88: groupby(['ref_pos', 'read_base']).read_id.unique() of one file
ThisReadList(records) ==
    [k \in {<<r.ref_pos, r.read_base>> : r \in records} |->
        {r.read_id : r \in {q \in records : <<q.ref_pos, q.read_base>> = k}}]

\* lines 69-76: NaN counts as no read, the two lists are united
collect_reads_from_row(row) ==
    LET other_reads == IF row.read_id.nan THEN {} ELSE row.read_id.ids
        these_reads == IF row.read_id_this.nan THEN {} ELSE row.read_id_this.ids
    IN  other_reads \cup these_reads

\* the cell of column col at index k after the join: NaN where col has no row
Cell(col, k) ==
    IF k \in DOMAIN col THEN [nan |-> FALSE, ids |-> col[k]] ELSE [nan |-> TRUE, ids |-> {}]

AppendReadListsLeftJoin(read_list, this_read_list) ==
    [k \in DOMAIN read_list |->
        collect_reads_from_row([read_id |-> Cell(read_list, k),
                                read_id_this |-> Cell(this_read_list, k)])]

\* lines 79-82: outer join on the index, then one set per row
append_read_lists(read_list, this_read_list) ==
    [k \in DOMAIN read_list \cup DOMAIN this_read_list |->
        collect_reads_from_row([read_id |-> Cell(read_list, k),
                                read_id_this |-> Cell(this_read_list, k)])]

RECURSIVE ReadListAfter(_, _)
\* lines 86-92: read_list after the first n files of called_bases_files; <<>>
\* is pd.DataFrame(), the read list without rows
ReadListAfter(called_bases_files, n) ==
    IF n = 0 THEN <<>>
    ELSE LET read_list == ReadListAfter(called_bases_files, n - 1)
             this_read_list == ThisReadList(bases_files[called_bases_files[n]])
         IN  IF DOMAIN read_list = {}
             THEN this_read_list
             ELSE append_read_lists(read_list, this_read_list)

InitReadListPart ==
    /\ bases_files = <<>>
    /\ read_list_file = [written |-> FALSE, raised |-> FALSE, rows |-> <<>>]
    /\ read_list_input = <<>>

\* a per-fragment processor writes a called_bases file
WriteBasesFile(f, records) ==
    /\ ~read_list_file.written /\ ~read_list_file.raised
    /\ f \notin DOMAIN bases_files
    /\ bases_files' = [g \in DOMAIN bases_files \cup {f} |->
                          IF g = f THEN records ELSE bases_files[g]]
    /\ UNCHANGED <<read_list_file, read_list_input>>

\* lines 85-96: the whole call; without any file read_list['ref_pos'] of line
\* 94 raises KeyError and nothing is written
CreateMutationReadListFile(called_bases_files) ==
    /\ ~read_list_file.written /\ ~read_list_file.raised
    /\ read_list_input' = called_bases_files
    /\ read_list_file' =
          IF called_bases_files = <<>>
          THEN [read_list_file EXCEPT !.raised = TRUE]
          ELSE [written |-> TRUE, raised |-> FALSE,
                rows |-> ReadListAfter(called_bases_files, Len(called_bases_files))]
    /\ UNCHANGED bases_files

ToolsIdle == DirIdle /\ BatchIdle /\ InitReadListPart

(***************************************************************************)
(* The specifications: one per part.                                       *)
(***************************************************************************)
FreqsIdle ==
    /\ reference = <<"A">>
    /\ called_bases = <<>>
    /\ freqs_file = [written |-> FALSE, rows |-> {}]
    /\ consensus_file = NoConsensus

LoopIdle ==
    /\ max_basecall_iterations = 1
    /\ fasta = [i \in {0} |-> <<"A">>]
    /\ reference_file = 0
    /\ basecall_iteration_counter = 0
    /\ alignments = <<>>
    /\ alignment_score = [matches |-> 0, length |-> 1]
    /\ loop_pc = "off"
    /\ returned = [reference_file |-> 0, alignments |-> <<>>, iterations |-> 0]
    /\ used_reference = <<>>
    /\ scores = <<>>

InitFreqs == InitFreqsPart /\ InitPrefixPart /\ LoopIdle /\ RunnerIdle /\ DispatchIdle /\ ConcatIdle /\ ToolsIdle

NextFreqs ==
    \/ \E f \in CalledBasesFiles : CreateCalledBasesFile(f) /\ UNCHANGED <<prefixVars, loopVars, runnerVars, dispatchVars, concatVars, toolVars>>
    \/ \E f \in CalledBasesFiles : \E rec \in BaseCallRecords(reference) :
          WriteCalledBase(f, rec) /\ UNCHANGED <<prefixVars, loopVars, runnerVars, dispatchVars, concatVars, toolVars>>
    \/ CreateFreqsFile /\ UNCHANGED <<prefixVars, loopVars, runnerVars, dispatchVars, concatVars, toolVars>>
    \/ \E mc \in MinCoverages : \E mf \in MinFrequencies :
          CreateConsensusFile(mc, mf)
          /\ UNCHANGED <<prefixVars, loopVars, runnerVars, dispatchVars, concatVars, toolVars>>

SpecFreqs == InitFreqs /\ [][NextFreqs]_vars

InitPrefix == FreqsIdle /\ InitPrefixPart /\ LoopIdle /\ RunnerIdle /\ DispatchIdle /\ ConcatIdle /\ ToolsIdle

NextPrefix ==
    \/ \E f \in BasecallFiles : \E id \in ReadIds :
          WriteRow(f, id) /\ UNCHANGED <<freqVars, loopVars, runnerVars, dispatchVars, concatVars, toolVars>>
    \/ \E order \in Orderings(BasecallFiles) : TrimStart(order) /\ UNCHANGED <<freqVars, loopVars, runnerVars, dispatchVars, concatVars, toolVars>>
    \/ Pass1Scan /\ UNCHANGED <<freqVars, loopVars, runnerVars, dispatchVars, concatVars, toolVars>>
    \/ Pass1Skip /\ UNCHANGED <<freqVars, loopVars, runnerVars, dispatchVars, concatVars, toolVars>>
    \/ Pass2Rewrite /\ UNCHANGED <<freqVars, loopVars, runnerVars, dispatchVars, concatVars, toolVars>>
    \/ Pass2Skip /\ UNCHANGED <<freqVars, loopVars, runnerVars, dispatchVars, concatVars, toolVars>>

SpecPrefix == InitPrefix /\ [][NextPrefix]_vars

InitLoop == FreqsIdle /\ InitPrefixPart /\ InitLoopPart /\ RunnerIdle /\ DispatchIdle /\ ConcatIdle /\ ToolsIdle

NextLoop ==
    \/ ParallelProcess /\ UNCHANGED <<freqVars, prefixVars, runnerVars, dispatchVars, concatVars, toolVars>>
    \/ \E consensus \in FastaSequences :
          CreateConsensusAndCheckAlignment(consensus) /\ UNCHANGED <<freqVars, prefixVars, runnerVars, dispatchVars, concatVars, toolVars>>
    \/ TestAndContinue /\ UNCHANGED <<freqVars, prefixVars, runnerVars, dispatchVars, concatVars, toolVars>>
    \/ TestAndReturn /\ UNCHANGED <<freqVars, prefixVars, runnerVars, dispatchVars, concatVars, toolVars>>

SpecLoop == InitLoop /\ [][NextLoop]_vars

InitRunner == FreqsIdle /\ InitPrefixPart /\ LoopIdle /\ InitRunnerPart /\ DispatchIdle /\ ConcatIdle /\ ToolsIdle

NextRunner ==
    \/ ValidateInput /\ UNCHANGED <<freqVars, prefixVars, loopVars, dispatchVars, concatVars, toolVars>>
    \/ \E stage \in TryStages : StageReturns(stage) /\ UNCHANGED <<freqVars, prefixVars, loopVars, dispatchVars, concatVars, toolVars>>
    \/ \E stage \in TryStages : StageRaises(stage) /\ UNCHANGED <<freqVars, prefixVars, loopVars, dispatchVars, concatVars, toolVars>>
    \/ \E ok, still_there \in BOOLEAN :
          TryToRmtreeAttempt(ok, still_there) /\ UNCHANGED <<freqVars, prefixVars, loopVars, dispatchVars, concatVars, toolVars>>
    \/ TryToRmtreeGiveUp /\ UNCHANGED <<freqVars, prefixVars, loopVars, dispatchVars, concatVars, toolVars>>
    \/ ExceptHandler /\ UNCHANGED <<freqVars, prefixVars, loopVars, dispatchVars, concatVars, toolVars>>

SpecRunner == InitRunner /\ [][NextRunner]_vars

InitDispatch == FreqsIdle /\ InitPrefixPart /\ LoopIdle /\ RunnerIdle /\ InitDispatchPart /\ ConcatIdle /\ ToolsIdle

NextDispatch ==
    \/ Submit /\ UNCHANGED <<freqVars, prefixVars, loopVars, runnerVars, concatVars, toolVars>>
    \/ BeginWait /\ UNCHANGED <<freqVars, prefixVars, loopVars, runnerVars, concatVars, toolVars>>
    \/ \E t \in Tasks : StartTask(t) /\ UNCHANGED <<freqVars, prefixVars, loopVars, runnerVars, concatVars, toolVars>>
    \/ \E t \in Tasks : \E ok \in BOOLEAN :
          FinishTask(t, ok) /\ UNCHANGED <<freqVars, prefixVars, loopVars, runnerVars, concatVars, toolVars>>
    \/ \E t \in Tasks : YieldResult(t) /\ UNCHANGED <<freqVars, prefixVars, loopVars, runnerVars, concatVars, toolVars>>
    \/ ExecutorExit /\ UNCHANGED <<freqVars, prefixVars, loopVars, runnerVars, concatVars, toolVars>>
    \/ PoolGet /\ UNCHANGED <<freqVars, prefixVars, loopVars, runnerVars, concatVars, toolVars>>
    \/ CreateConsensus /\ UNCHANGED <<freqVars, prefixVars, loopVars, runnerVars, concatVars, toolVars>>
    \/ NextIteration /\ UNCHANGED <<freqVars, prefixVars, loopVars, runnerVars, concatVars, toolVars>>

SpecDispatch == InitDispatch /\ [][NextDispatch]_vars

InitConcat ==
    FreqsIdle /\ InitPrefixPart /\ LoopIdle /\ RunnerIdle /\ DispatchIdle /\ InitConcatPart /\ ToolsIdle

NextConcat ==
    \/ OpenOutput /\ UNCHANGED <<freqVars, prefixVars, loopVars, runnerVars, dispatchVars, toolVars>>
    \/ ConcatenateFile /\ UNCHANGED <<freqVars, prefixVars, loopVars, runnerVars, dispatchVars, toolVars>>
    \/ CloseOutput /\ UNCHANGED <<freqVars, prefixVars, loopVars, runnerVars, dispatchVars, toolVars>>

SpecConcat == InitConcat /\ [][NextConcat]_vars

InitDir ==
    FreqsIdle /\ InitPrefixPart /\ LoopIdle /\ RunnerIdle /\ DispatchIdle /\ ConcatIdle /\ InitDirPart /\ BatchIdle /\ InitReadListPart

NextDir ==
    \/ MakedirsFirst /\ UNCHANGED <<freqVars, prefixVars, loopVars, runnerVars, dispatchVars, concatVars, batchVars, readListVars>>
    \/ LoopTurn /\ UNCHANGED <<freqVars, prefixVars, loopVars, runnerVars, dispatchVars, concatVars, batchVars, readListVars>>

SpecDir == InitDir /\ [][NextDir]_vars

InitBatch ==
    FreqsIdle /\ InitPrefixPart /\ LoopIdle /\ RunnerIdle /\ DispatchIdle /\ ConcatIdle /\ DirIdle /\ InitBatchPart /\ InitReadListPart

NextBatch ==
    \/ BeginBatch /\ UNCHANGED <<freqVars, prefixVars, loopVars, runnerVars, dispatchVars, concatVars, dirVars, readListVars>>
    \/ EndOfGenerator /\ UNCHANGED <<freqVars, prefixVars, loopVars, runnerVars, dispatchVars, concatVars, dirVars, readListVars>>
    \/ NextEntry /\ UNCHANGED <<freqVars, prefixVars, loopVars, runnerVars, dispatchVars, concatVars, dirVars, readListVars>>
    \/ BatchFull /\ UNCHANGED <<freqVars, prefixVars, loopVars, runnerVars, dispatchVars, concatVars, dirVars, readListVars>>

SpecBatch == InitBatch /\ [][NextBatch]_vars

InitReadList ==
    FreqsIdle /\ InitPrefixPart /\ LoopIdle /\ RunnerIdle /\ DispatchIdle /\ ConcatIdle /\ DirIdle /\ BatchIdle /\ InitReadListPart

NextReadList ==
    \/ \E f \in CalledBasesFiles \cup {"part_2.called_bases"} : \E records \in SUBSET ReadListRecords :
          /\ Cardinality(records) <= MaxListed
          /\ WriteBasesFile(f, records)
          /\ UNCHANGED <<freqVars, prefixVars, loopVars, runnerVars, dispatchVars, concatVars, dirVars, batchVars>>
    \/ \E called_bases_files \in Orderings(DOMAIN bases_files) :
          /\ CreateMutationReadListFile(called_bases_files)
          /\ UNCHANGED <<freqVars, prefixVars, loopVars, runnerVars, dispatchVars, concatVars, dirVars, batchVars>>

SpecReadList == InitReadList /\ [][NextReadList]_vars

\* the generator is driven by the for loop of split_fastq_file, which asks for
\* the next batch as long as there is one: every step that can be taken is taken
SpecBatchFair == SpecBatch /\ WF_vars(NextBatch)

(***************************************************************************)
(* Properties of the frequency table (checked under SpecFreqs).            *)
(***************************************************************************)
Rows == freqs_file.rows
AllRecords == UNION {called_bases[f] : f \in DOMAIN called_bases}
RowsAt(pos) == {r \in Rows : r.ref_pos = pos}
RowsAtBase(pos, b) == {r \in RowsAt(pos) : r.read_base = b}
IntegerPositions == {1000 * p : p \in 1..Len(reference)}
\* every record carries the base of the reference at its position
RefBaseAgrees == \A r \in AllRecords : r.ref_base = reference[r.ref_pos \div 1000]
\* the sum of base_count over the rows at pos whose read_base is one of the five
CountAt(pos) == SumOver({r \in RowsAt(pos) : r.read_base \in Bases}, "base_count")
InUnitRange(x) == 0 <= x /\ x <= 10000
\* the rows at pos with the largest base_count
TopRows(pos) == {r \in RowsAt(pos) : \A q \in RowsAt(pos) : q.base_count <= r.base_count}
\* the number of distinct read ids of file f that called key k
CallsIn(f, k) == Cardinality({r.read_id : r \in {x \in called_bases[f] : KeyOf(x) = k}})

\* C1 as stated: after create_freqs_file, for every position p in 1..L and every
\* base b of A,G,T,C,- the table holds exactly one row with ref_pos = p and
\* read_base = b, whatever the records and also for an empty collection of files.
C1_ExactlyOneRowForAnyInput ==
    freqs_file.written =>
        \A pos \in IntegerPositions : \A b \in Bases : Cardinality(RowsAtBase(pos, b)) = 1

\* C1 amended: with no called_bases file the table is empty; with at least one
\* file, the table holds for every position p and base b one row per ref_base
\* that occurs for (p, b), the reference's base R[p] included: exactly one row
\* when every record at p carries ref_base = R[p].
C1_OneRowPerRefBase ==
    freqs_file.written =>
        IF DOMAIN called_bases = {} THEN Rows = {}
        ELSE \A pos \in IntegerPositions : \A b \in Bases :
                /\ Cardinality(RowsAtBase(pos, b)) =
                      Cardinality({reference[pos \div 1000]} \cup
                                  {r.ref_base : r \in {x \in AllRecords :
                                        x.ref_pos = pos /\ x.read_base = b}})
                /\ RefBaseAgrees => Cardinality(RowsAtBase(pos, b)) = 1

C1_Witness ==
    /\ freqs_file.written
    /\ Len(reference) = 2
    /\ RefBaseAgrees
    /\ \E r \in AllRecords : r.ref_pos = 2000
    /\ \E f \in DOMAIN called_bases : called_bases[f] = {}

\* C2: for every integer position p, the coverage every row at p carries is the
\* sum of base_count over the rows of the five bases at p (rows at insertion
\* positions after p are not part of it).
C2_CoverageIsSumOfBaseCounts ==
    freqs_file.written =>
        \A pos \in IntegerPositions : \A r \in RowsAt(pos) : r.coverage = CountAt(pos)

C2_Witness ==
    /\ freqs_file.written
    /\ \E r \in RowsAt(1000) : r.coverage = 2 /\ r.base_count = 1
    /\ \E r \in RowsAt(1001) : r.base_count = 1

C4_TopRowsHaveRankZero ==
    (freqs_file.written /\ RefBaseAgrees) =>
        \A pos \in IntegerPositions :
            CountAt(pos) > 0 => \A r \in TopRows(pos) : r.base_rank = 0

\* C4 amended: at every integer position with coverage > 0 whose records carry
\* the reference's base, the k rows with the largest base_count have base_rank
\* k - 1: 0 when one base has the largest count, and no row at the position has
\* base_rank 0 when two or more bases tie for it.
C4_TopRowsHaveRankTiesMinusOne ==
    (freqs_file.written /\ RefBaseAgrees) =>
        \A pos \in IntegerPositions :
            CountAt(pos) > 0 =>
                /\ \A r \in TopRows(pos) : r.base_rank = Cardinality(TopRows(pos)) - 1
                /\ Cardinality(TopRows(pos)) > 1 => \A r \in RowsAt(pos) : r.base_rank # 0

C4_Witness ==
    /\ freqs_file.written
    /\ RefBaseAgrees
    /\ Cardinality(TopRows(1000)) = 2 /\ CountAt(1000) = 2
    /\ Cardinality(TopRows(2000)) = 1 /\ CountAt(2000) = 1

\* C5 as stated: base_count of a key is the number of distinct read ids that
\* called it over all files taken together.
C5_CountsDistinctReadsOverall ==
    freqs_file.written =>
        \A r \in Rows :
            r.base_count = Cardinality({x.read_id : x \in {y \in AllRecords : KeyOf(y) = KeyOf(r)}})

\* C5 amended: base_count of a key is the sum, over the called_bases files, of
\* the number of distinct read ids that called it in that file (a read id that
\* occurs in two files for the same key is counted twice).
C5_CountsDistinctReadsPerFile ==
    freqs_file.written =>
        \A r \in Rows :
            r.base_count =
                SumOver({[f |-> f, n |-> CallsIn(f, KeyOf(r))] : f \in DOMAIN called_bases}, "n")

C5_Witness ==
    /\ freqs_file.written
    /\ \E r \in Rows : \E f, g \in DOMAIN called_bases :
          f # g /\ r.base_count = 3 /\ CallsIn(f, KeyOf(r)) = 2 /\ CallsIn(g, KeyOf(r)) = 1

\* C21 as stated: the coverage of every row, at an integer or an insertion
\* position, is the sum of base_count over all rows whose ref_pos has the
\* same integer part, insertion rows included.
C21_CoverageSumsIntegerPartGroup ==
    freqs_file.written =>
        \A r \in Rows :
            r.coverage = SumOver({q \in Rows : q.ref_pos \div 1000 = r.ref_pos \div 1000},
                                 "base_count")

\* C21, amended: the coverage of every row, at an integer or an insertion
\* position, is the sum of base_count over the rows whose ref_pos is exactly
\* the integer position round(ref_pos); rows at insertion positions are not
\* part of any coverage.
C21_CoverageSumsIntegerPositionOnly ==
    freqs_file.written =>
        \A r \in Rows :
            r.coverage = SumOver({q \in Rows : IsInteger(q.ref_pos) /\
                                                1000 * ((r.ref_pos + 500) \div 1000) = q.ref_pos},
                                 "base_count")

C21_Witness ==
    /\ freqs_file.written
    /\ \E r \in RowsAt(1001) : r.base_count = 1 /\ r.coverage = 2
    /\ \E r \in RowsAt(1000) : r.base_count = 2 /\ r.coverage = 2

C27_TableIndependentOfFileOrder ==
    freqs_file.written =>
        \A order \in Orderings(DOMAIN called_bases) :
            aggregate_called_bases(order, reference) =
                {[ref_pos |-> r.ref_pos, read_base |-> r.read_base, ref_base |-> r.ref_base,
                  base_count |-> r.base_count, overlap_ratio |-> r.overlap_ratio,
                  avg_qscore |-> r.avg_qscore] : r \in Rows}

C27_Witness ==
    /\ freqs_file.written
    /\ Cardinality(DOMAIN called_bases) = 2
    /\ \A f, g \in DOMAIN called_bases : f # g =>
            /\ called_bases[f] # called_bases[g]
            /\ \E x \in called_bases[f] : \E y \in called_bases[g] :
                  KeyOf(x) = KeyOf(y) /\ x.read_id # y.read_id
    /\ \E r \in Rows : r.base_count = 2 /\ r.overlap_ratio = 5000

(***************************************************************************)
(* Properties of the prefix compactor (checked under SpecPrefix).          *)
(***************************************************************************)
Dict == json_file.dict
Values(dict) == {dict[k] : k \in DOMAIN dict}
Injective(dict) == \A j, k \in DOMAIN dict : j # k => dict[j] # dict[k]
\* the prefixes of the last update_prefix_dict call that were not keys before
\* it, in the order of their first appearance
NewPrefixes ==
    LET firsts == Unique(last_update.prefixes)
        IsNew(i) == firsts[i] \notin DOMAIN last_update.old
        \* the number of new prefixes among the first i
        RankOf(i) == Cardinality({j \in 1..i : IsNew(j)})
    IN  [n \in 1..RankOf(Len(firsts)) |->
            firsts[CHOOSE i \in DOMAIN firsts : IsNew(i) /\ RankOf(i) = n]]

\* C6: after any sequence of update_prefix_dict calls that starts from no JSON
\* file, the values of the dictionary are pairwise distinct and are exactly
\* the numbers 1..|dict| (the keys of a dictionary are distinct as such).
C6_ValuesAreOneToSize ==
    json_file.exists =>
        /\ Injective(Dict)
        /\ Values(Dict) = 1..Cardinality(DOMAIN Dict)

C6_Witness ==
    /\ json_file.exists
    /\ runs = 2
    /\ Cardinality(DOMAIN Dict) >= 4
    /\ last_update.called /\ DOMAIN last_update.old # {}

\* C7: an update_prefix_dict call leaves the value of every key it found in
\* the dictionary unchanged, adds exactly the new prefixes, and gives them
\* max(existing values)+1, +2, ... in the order they are first encountered.
C7_UpdateOnlyAppends ==
    last_update.called =>
        /\ \A k \in DOMAIN last_update.old : k \in DOMAIN Dict /\ Dict[k] = last_update.old[k]
        /\ DOMAIN Dict = DOMAIN last_update.old \cup {NewPrefixes[n] : n \in DOMAIN NewPrefixes}
        /\ \A n \in DOMAIN NewPrefixes : Dict[NewPrefixes[n]] = MaxValue(last_update.old) + n

C7_Witness ==
    /\ last_update.called
    /\ Cardinality(DOMAIN last_update.old) >= 1
    /\ Len(NewPrefixes) = 2
    /\ Dict[NewPrefixes[2]] = 3

\* C8: after trim_read_id_prefixes, every read id v of every file with rows is
\* "<n>-<tail>", where n is the positive integer the final dictionary gives
\* v[:31] and tail is v[31:]; equal prefixes get the same n in every file.
C8_EveryReadIdIsRewritten ==
    trim_pc = "done" =>
        \A f \in BasecallFiles :
            /\ Len(basecall_files[f]) = Len(files_before[f])
            /\ \A i \in DOMAIN files_before[f] :
                  LET v == files_before[f][i]
                  IN  /\ Take(v, prefix_length) \in DOMAIN Dict
                      /\ Dict[Take(v, prefix_length)] >= 1
                      /\ basecall_files[f][i] =
                            ToStr(Dict[Take(v, prefix_length)]) \o <<"-">> \o Drop(v, prefix_length)

C8_Witness ==
    /\ trim_pc = "done"
    /\ runs = 1
    /\ \A f \in BasecallFiles : Len(basecall_files[f]) = 2
    /\ \E f, g \in BasecallFiles :
          /\ f # g
          /\ files_before[f][1] # files_before[g][1]
          /\ Take(files_before[f][1], prefix_length) = Take(files_before[g][1], prefix_length)
          /\ Take(files_before[f][2], prefix_length) # Take(files_before[f][1], prefix_length)

\* C9 as stated: a second run of trim_read_id_prefixes on the files and the
\* dictionary the first run left leaves every file and the dictionary as they
\* were after the first run.
C9_SecondRunChangesNothing ==
    (trim_pc = "done" /\ runs >= 2) =>
        /\ basecall_files = files_before
        /\ json_file = json_before

\* C24: no file is rewritten while pass 1 is running; and during pass 2 the
\* dictionary that rewrites the files holds the 31-character prefix of every
\* read_id of every file, the keys the JSON had before the call included, also
\* the prefixes of files scanned before the last non-empty file.
C24_DictionaryCompleteBeforeRewrite ==
    /\ trim_pc = "pass1" => basecall_files = files_before
    /\ trim_pc = "pass2" =>
          /\ (\E f \in BasecallFiles : files_before[f] # <<>>) => prefix_dict.bound
          /\ \A f \in BasecallFiles : \A i \in DOMAIN files_before[f] :
                Take(files_before[f][i], prefix_length) \in DOMAIN prefix_dict.dict
          /\ prefix_dict.bound =>
                /\ prefix_dict.dict = json_file.dict
                /\ json_before.exists => DOMAIN json_before.dict \subseteq DOMAIN prefix_dict.dict

C24_Witness ==
    /\ trim_pc = "pass2"
    /\ trim_i = 1
    /\ runs = 2
    /\ json_before.exists
    /\ Len(basecall_files[trim_files[1]]) = 2
    /\ Len(basecall_files[trim_files[2]]) = 1
    /\ Cardinality(DOMAIN prefix_dict.dict) > Cardinality(DOMAIN json_before.dict)
    /\ \E i \in 1..2 : Take(basecall_files[trim_files[1]][i], prefix_length) #
                          Take(basecall_files[trim_files[2]][1], prefix_length)

(***************************************************************************)
(* Properties of the refinement loop (checked under SpecLoop).             *)
(***************************************************************************)
\* C10: process_data runs the iterations 1, 2, ... in order and at most
\* max_basecall_iterations of them; no iteration follows one that scored 1.0;
\* and when iteration k scores 1.0 it returns the reference file iteration k
\* used (not the consensus of iteration k) together with k.
C10_StopsAtFirstPerfectScore ==
    /\ basecall_iteration_counter = Len(used_reference)
    /\ basecall_iteration_counter <= max_basecall_iterations
    /\ \A j \in 1..(Len(scores) - 1) : ~ScoreIsOne(scores[j])
    /\ \A j \in 2..Len(used_reference) : used_reference[j] = j - 1
    /\ (loop_pc = "done" /\ ScoreIsOne(scores[Len(scores)])) =>
            /\ returned.iterations = Len(scores)
            /\ returned.reference_file = used_reference[returned.iterations]
            /\ Len(returned.alignments) = returned.iterations

C10_Witness ==
    /\ loop_pc = "done"
    /\ max_basecall_iterations = 3
    /\ returned.iterations = 2
    /\ ScoreIsOne(scores[2])
    /\ returned.reference_file = 1
    /\ fasta[0] # fasta[1]

\* C12: when the loop has run max_basecall_iterations iterations and none of
\* them scored 1.0, process_data returns (it does not raise) the consensus file
\* of the last iteration as the accepted reference, the number of iterations,
\* and an alignment history with exactly one entry per executed iteration.
C12_ExhaustedLoopReturnsLastConsensus ==
    (loop_pc = "done" /\ ~ScoreIsOne(scores[Len(scores)])) =>
        /\ returned.iterations = max_basecall_iterations
        /\ returned.reference_file = max_basecall_iterations
        /\ Len(returned.alignments) = returned.iterations
        /\ \A j \in 1..returned.iterations : returned.alignments[j] = fasta[j]

C12_Witness ==
    /\ loop_pc = "done"
    /\ max_basecall_iterations = 3
    /\ \A j \in 1..3 : ~ScoreIsOne(scores[j])
    /\ returned.reference_file = 3
    /\ Len(returned.alignments) = 3

\* C22: the alignment score of every iteration, matches of the global
\* alignment over max(|consensus|, |reference|), lies in [0,1], and it is 1
\* exactly when the consensus of the iteration and the reference the
\* iteration used are the same string; so the loop ends before its last
\* iteration exactly on such an iteration.
C22_ScoreIsOneIffSameString ==
    /\ \A j \in 1..Len(scores) :
          /\ 0 <= scores[j].matches
          /\ scores[j].matches <= scores[j].length
          /\ scores[j].length > 0
          /\ ScoreIsOne(scores[j]) <=> fasta[j] = fasta[used_reference[j]]
    /\ (loop_pc = "done" /\ returned.iterations < max_basecall_iterations) =>
            fasta[returned.iterations] = fasta[returned.reference_file]

C22_Witness ==
    /\ loop_pc = "done"
    /\ Len(scores) = 2
    /\ scores[1] = [matches |-> 1, length |-> 2]
    /\ Len(fasta[0]) # Len(fasta[1])
    /\ ScoreIsOne(scores[2])
    /\ fasta[2] = fasta[1]
    /\ max_basecall_iterations = 3

(***************************************************************************)
(* Properties of the runner (checked under SpecRunner).                    *)
(***************************************************************************)
WorkStages == {"prepare_data", "parallel_process", "create_consensus"}
Finished == runner_pc \in {"returned", "raised"}
InputValidationErrors ==
    {"blast mode must be either RefToSeq or SeqToRef! ", "output_dir must be path to a new or empty directory!", "reference_file must exist!", "reference_file must be of type fasta!", "Input_dir must exist!",
     "Could not find files ending with '.fastq' or 'fastq.gz' in input_dir !", "fasta file must contain only one record!"}

\* C11: when the per-fragment processing of the last iteration left zero
\* base-call records, the run proceeds to aggregation and the copy of the
\* final freqs file is skipped.
C11_NoRecordsSkipsFinalCopy ==
    (basecall_output \in {"no_files", "no_records"} /\ "aggregate" \in stages_run) =>
        ~freqs_copied

\* C16: every input-validation error (missing reference, multi-record FASTA,
\* input directory without fastq files, invalid mode, non-empty output
\* directory) leaves runner as an exception before data preparation or
\* per-fragment processing has started.
C16_ValidationErrorsBeforeAnyWork ==
    error \in InputValidationErrors =>
        /\ stages_run \cap WorkStages = {}
        /\ runner_pc = "raised"

C18_AtMostFiveAttemptsNoneRaised ==
    /\ \A d \in DirsToRemove :
          /\ Len(rm_log[d]) <= 5
          /\ \A i \in 1..(Len(rm_log[d]) - 1) : ~rm_log[d][i]
    /\ failed_stage # "remove_dirs"
    /\ runner_pc \in {"except", "raised"} /\ "remove_dirs" \in stages_run =>
            failed_stage = "update_done"

C18_Witness ==
    /\ rm_log[1] = <<FALSE, FALSE, FALSE, FALSE, FALSE>>
    /\ rm_exists[1]
    /\ rm_log[2] = <<FALSE, TRUE>>
    /\ runner_pc = "returned"
    /\ status = "Done"

(***************************************************************************)
(* Properties of the fan-outs (checked under SpecDispatch).                *)
(***************************************************************************)
FailedInOrder == {i \in DOMAIN completion : tasks[completion[i]] = "failed"}
FirstFailed == completion[CHOOSE i \in FailedInOrder : \A j \in FailedInOrder : i <= j]

\* C13: when the dispatcher raises, it raises the failure of the task that
\* failed first, and every other task has finished by then: none is waiting,
\* running or killed.
C13_RaisesFirstFailureAfterAllFinished ==
    dispatch_pc = "raised" =>
        /\ raised_of = FirstFailed
        /\ \A t \in Tasks : tasks[t] \in {"done", "failed"}

\* C14: at every moment the number of tasks running at once is at most the
\* configured cpu_count (the number of CPUs when it is not set), in both
\* fan-outs.
C14_RunningTasksWithinCpuCount ==
    Cardinality(RunningTasks(tasks)) <= EffectiveCpuCount(cpu_count, os_cpu_count)

\* C15: the consensus of iteration k is computed only when every worker of
\* iteration k has completed, control leaves parallel_process only when no
\* worker of the iteration is waiting or running, and no worker of iteration
\* k+1 exists before every worker of iteration k has completed; the workers
\* of an iteration complete in any order.
C15_FanInBarrierPerIteration ==
    dispatcher = "ProcessPoolExecutor" =>
        /\ consensus_count \in {iteration - 1, iteration}
        /\ consensus_count = iteration => \A t \in Tasks : tasks[t] = "done"
        /\ dispatch_pc \in {"returned", "raised", "next"} => Settled(tasks)
        /\ \A t \in Tasks : previous_tasks[t] = "done"
        /\ (\E t \in Tasks : tasks[t] # "new") => consensus_count = iteration - 1
                                                    \/ dispatch_pc = "next"

C15_Witness ==
    /\ dispatcher = "ProcessPoolExecutor"
    /\ iteration = 2
    /\ consensus_count = 2
    /\ completion = <<2, 1>>
    /\ os_cpu_count = 2

(***************************************************************************)
(* Properties of the concatenation (checked under SpecConcat).             *)
(***************************************************************************)
RECURSIVE AllLines(_)
AllLines(files) == IF files = <<>> THEN <<>> ELSE Head(files) \o AllLines(Tail(files))

RECURSIVE NonHeaderLines(_)
NonHeaderLines(files) ==
    IF files = <<>> THEN <<>>
    ELSE (IF Head(files) = <<>> THEN <<>> ELSE Tail(Head(files))) \o NonHeaderLines(Tail(files))

HeaderLines(lines) == {i \in DOMAIN lines : lines[i] = "h"}

\* C19 as stated: the written file holds exactly one header line, first,
\* followed by every non-header line of every input file in order, for the
\* blast files and for each category, also when the first file is empty.
C19_OneHeaderThenAllDataLines ==
    (concat_pc = "closed" /\ AllLines(input_files) # <<>>) =>
        /\ HeaderLines(output_file) = {1}
        /\ Tail(output_file) = NonHeaderLines(input_files)

\* C19, amended: for a category (remove_headers left True) whose first
\* listed file is not empty the written file is the header of the first file
\* followed by every non-header line of every file in order; when the first
\* file is empty the written file holds the non-header lines only, no header;
\* for the blast files (remove_headers=False) it holds every line of every
\* file in order, the first line of each file included.
C19_HeaderOnlyFromNonEmptyFirstFile ==
    (concat_pc = "closed" /\ input_files # <<>>) =>
        IF ~remove_headers THEN output_file = AllLines(input_files)
        ELSE IF input_files[1] # <<>>
             THEN output_file = <<input_files[1][1]>> \o NonHeaderLines(input_files)
             ELSE output_file = NonHeaderLines(input_files)

C19_Witness ==
    /\ concat_pc = "closed"
    /\ remove_headers
    /\ input_files = <<<<>>, <<"h", "a">>, <<"h", "a", "b">>>>
    /\ output_file = <<"a", "a", "b">>

(***************************************************************************)
(* Properties of the output directory (checked under SpecDir).             *)
(***************************************************************************)
\* C26: create_dir_also_if_exists creates exactly one new directory, the one
\* it returns: never more than one directory is created, and the returned
\* path is the created one, absent before the call.
C26_CreatesExactlyOneNewDirectory ==
    /\ Cardinality(created) <= 1
    /\ mkdir_pc = "returned" =>
          /\ created = {output_dir}
          /\ output_dir \notin dirs_before

(***************************************************************************)
(* Properties of batch_iterator (checked under SpecBatchFair).             *)
(***************************************************************************)
RECURSIVE Flatten(_)
Flatten(ss) == IF ss = <<>> THEN <<>> ELSE Head(ss) \o Flatten(Tail(ss))

\* the lists yielded are non-empty, hold exactly batch_size entries except
\* possibly a shorter last one, and their concatenation is the input read so far
GoodBatches ==
    /\ \A k \in DOMAIN batches :
          /\ batches[k] # <<>>
          /\ Len(batches[k]) * batch_size.den <= batch_size.num
          /\ k < Len(batches) => Len(batches[k]) * batch_size.den = batch_size.num
    /\ batch_pc = "done" => Flatten(batches) = entries_in

\* C25: for every finite iterator and every batch_size batch_iterator
\* terminates, and what it yields are non-empty lists of exactly batch_size
\* entries (the last possibly shorter) whose concatenation is the input.
C25_TerminatesWithExactBatches == (<>(batch_pc = "done")) /\ []GoodBatches

(***************************************************************************)
(* Properties of the read lists (checked under SpecReadList).              *)
(***************************************************************************)
\* the records of all the files given to the call
ListedRecords == UNION {bases_files[read_list_input[n]] : n \in DOMAIN read_list_input}

\* C23: the file written has one row per key (ref_pos, read_base) met in any
\* of the files, and the read ids of the row are exactly the read_ids of the
\* records with that key in all the files; a key that some files lack loses
\* no read_id and gains none.
C23_ReadIdsAreUnionOverFiles ==
    read_list_file.written =>
        /\ DOMAIN read_list_file.rows = {<<r.ref_pos, r.read_base>> : r \in ListedRecords}
        /\ \A k \in DOMAIN read_list_file.rows :
              read_list_file.rows[k] =
                  {r.read_id : r \in {q \in ListedRecords : <<q.ref_pos, q.read_base>> = k}}

\* three files: the first lacks the key of the second, the third repeats the
\* key of the first with another read
C23_Witness ==
    /\ read_list_file.written
    /\ Len(read_list_input) = 3
    /\ \E k1, k2 \in DOMAIN read_list_file.rows :
          /\ k1 # k2
          /\ k1 \in DOMAIN ThisReadList(bases_files[read_list_input[1]])
          /\ k2 \notin DOMAIN ThisReadList(bases_files[read_list_input[1]])
          /\ k1 \notin DOMAIN ThisReadList(bases_files[read_list_input[2]])
          /\ k2 \in DOMAIN ThisReadList(bases_files[read_list_input[2]])
          /\ k1 \in DOMAIN ThisReadList(bases_files[read_list_input[3]])
          /\ ThisReadList(bases_files[read_list_input[3]])[k1] #
                 ThisReadList(bases_files[read_list_input[1]])[k1]
          /\ Cardinality(read_list_file.rows[k1]) = 2

=============================================================================
